---- MODULE Spec2Model ----
(***************************************************************************)
(* Model of the registration and discovery engine of SprintConnect         *)
(* (backend/app/services/mcp_registration.py, services/mcp_server.py,      *)
(* core/security.py, models/mcp_server.py).                                *)
(*                                                                         *)
(* Every worker holds its own SQLAlchemy session: rows it adds stay in     *)
(* the session until commit() publishes them to the store, and rollback()  *)
(* discards them.  Network requests are answered nondeterministically.     *)
(***************************************************************************)
EXTENDS Integers, Sequences, FiniteSets, TLC

VARIABLES
    settings,      \* app.core.config.settings: ENVIRONMENT, DEBUG,
                   \* ALLOWED_EGRESS_HOSTS
    servers,       \* committed rows of mcp_servers
    credentials,   \* committed rows of mcp_credentials
    capabilities,  \* committed rows of mcp_capabilities
    session,       \* per worker: rows added to self.db and not yet committed
    pc,            \* per worker: position inside the running operation
    att,           \* per worker: arguments and locals of the running operation,
                   \* the requests it has sent, and the store as it was
                   \* when the operation began
    nextId         \* next unused server id (uuid.uuid4() never repeats)

vars == <<settings, servers, credentials, capabilities, session, pc, att, nextId>>

store == <<servers, credentials, capabilities>>

----------------------------------------------------------------------------
(* Bounds and input domains *)

\* discover_capabilities starts only while the capability table has fewer rows
MaxCapabilityRows == 4

MaxServers == 2

Procs == {"w1", "w2"}

Orgs == {"orgA", "orgB"}

Names == {"payments", "search"}

Environments == {"development", "staging", "production"}

\* None, or a value the caller passes for `environment`
EnvironmentArgs == {"none", "staging"}

\* the default of Settings.ALLOWED_EGRESS_HOSTS
ALLOWED_EGRESS_HOSTS == {"api.openai.com", "api.anthropic.com"}

SchemasLimit == 65536

Range(s) == {s[i] : i \in 1..Len(s)}

----------------------------------------------------------------------------
(* URLs, as urlparse() splits them *)

Url(scheme, hostname) == [scheme |-> scheme, hostname |-> hostname]

AllowedUrl == Url("https", "api.openai.com")

LinkLocalUrl == Url("http", "169.254.169.254")

EndpointUrls == {AllowedUrl, LinkLocalUrl}

\* ipaddress.ip_address(hostname) succeeds
IpLiterals == {"169.254.169.254", "10.0.0.1", "127.0.0.1", "0.0.0.0",
               "224.0.0.1", "240.0.0.1", "8.8.8.8"}

is_private(h) == h \in {"169.254.169.254", "10.0.0.1", "127.0.0.1", "0.0.0.0", "240.0.0.1"}

is_link_local(h) == h \in {"169.254.169.254"}

is_multicast(h) == h \in {"224.0.0.1"}

is_loopback(h) == h \in {"127.0.0.1"}

is_reserved(h) == h \in {"240.0.0.1"}

\* the hostname grammar of the DNS branch
HostnameWellFormed(h) == h \notin {"bad_host!"}

InternalDomain(h) == h \in {"svc.internal", "printer.local"}

Verdict(ok, reason) == [allowed |-> ok, reason |-> reason]

validate_url_security(url, allowed_hosts, environment) ==
    IF url.scheme \notin {"http", "https", "ws", "wss"}
    THEN Verdict(FALSE, "Invalid scheme")
    ELSE IF environment = "production" /\ url.scheme \in {"http", "ws"}
    THEN Verdict(FALSE, "HTTP/WS not allowed in production environment")
    ELSE IF url.hostname = ""
    THEN Verdict(FALSE, "No hostname found in URL")
    ELSE IF url.hostname \in allowed_hosts
    THEN Verdict(TRUE, "Hostname in allowed list")
    ELSE IF url.hostname \in IpLiterals
    THEN IF is_private(url.hostname)
         THEN Verdict(FALSE, "Private IP address not allowed")
         ELSE IF is_link_local(url.hostname)
         THEN Verdict(FALSE, "Link-local IP address not allowed")
         ELSE IF is_multicast(url.hostname)
         THEN Verdict(FALSE, "Multicast IP address not allowed")
         ELSE IF is_loopback(url.hostname)
         THEN Verdict(FALSE, "Loopback IP address not allowed")
         ELSE IF is_reserved(url.hostname)
         THEN Verdict(FALSE, "Reserved IP address not allowed")
         ELSE IF environment = "production"
         THEN Verdict(FALSE, "IP address not in allowed list")
         ELSE Verdict(TRUE, "IP address allowed in non-production environment")
    ELSE IF ~HostnameWellFormed(url.hostname)
    THEN Verdict(FALSE, "Invalid hostname format")
    ELSE IF url.hostname \in {"localhost", "127.0.0.1", "::1"}
    THEN Verdict(FALSE, "Localhost not allowed")
    ELSE IF InternalDomain(url.hostname)
    THEN Verdict(FALSE, "Internal domain not allowed")
    ELSE Verdict(FALSE, "Hostname not in allowed list")

\* variant that extends the list for every server environment
mcp_server_allowed_hosts_any_environment(environment) ==
    settings.ALLOWED_EGRESS_HOSTS \cup {"localhost", "127.0.0.1", "0.0.0.0"}

\* the allowed_hosts of validate_mcp_server_url: the configured list and, for
\* a development server, localhost, 127.0.0.1 and 0.0.0.0
mcp_server_allowed_hosts(environment) ==
    IF environment = "development"
    THEN settings.ALLOWED_EGRESS_HOSTS \cup {"localhost", "127.0.0.1", "0.0.0.0"}
    ELSE settings.ALLOWED_EGRESS_HOSTS

\* the (is_allowed, reason) validate_mcp_server_url gets; the rules on the
\* scheme and on public IP literals read settings.ENVIRONMENT
mcp_server_url_verdict(url, environment) ==
    validate_url_security(url, mcp_server_allowed_hosts(environment), settings.ENVIRONMENT)

\* validate_mcp_server_url: TRUE when it returns, FALSE when it raises
\* SSRFProtectionError
validate_mcp_server_url(url, environment) ==
    mcp_server_url_verdict(url, environment).allowed

----------------------------------------------------------------------------
(* Specifications, credentials, handshake results *)

\* JSON values: a string, a dict (a function on its keys) or a list
Str(s) == [str |-> s]

Map(f) == [map |-> f]

List(l) == [list |-> l]

\* a string kept as the sequence of its "/"-separated segments
Segments(path) == [segments |-> path]

IsMap(v) == "map" \in DOMAIN v

IsList(v) == "list" \in DOMAIN v

\* capabilities is server_info.capabilities; tool_properties is the
\* input_schema.properties dict of every declared tool
SpecShape(version, tools, resources, schemas_size) ==
    [version |-> version, tools |-> tools, resources |-> resources,
     schemas_size |-> schemas_size, capabilities |-> <<>>,
     tool_properties |-> <<>>]

SpecShapes ==
    { SpecShape("1.0.0", <<>>, <<>>, 0),
      SpecShape("1.0.0", <<"search">>, <<"file:///r">>, 2),
      SpecShape("1.0.0", <<"search", "search">>, <<>>, 0),
      SpecShape("1.0.0", <<>>, <<"file:///r", "file:///r">>, 0),
      SpecShape("", <<"search">>, <<>>, 0),
      SpecShape("1.0.0", <<>>, <<>>, SchemasLimit + 1) }

NoSpec == [name |-> "", version |-> "", tools |-> <<>>, resources |-> <<>>,
           schemas_size |-> 0, capabilities |-> <<>>, tool_properties |-> <<>>]

\* auth_config: None, or a dict with a type; "" and <<>> stand for a key
\* the dict does not have
\* a vault path is the sequence of its "/"-separated segments
AuthConfig(type, vault_path, token, api_key, header_name) ==
    [present |-> TRUE, type |-> type, vault_path |-> vault_path,
     token |-> token, api_key |-> api_key, header_name |-> header_name]

NoAuth == [present |-> FALSE, type |-> "", vault_path |-> <<>>,
           token |-> "", api_key |-> "", header_name |-> ""]

\* {"type": "bearer_token", "token": ...}: no vault_path key
BearerAuth == AuthConfig("bearer_token", <<>>, "tok-1", "", "")

AuthConfigs == {NoAuth, BearerAuth}

HandshakeResult(version, name, caps) ==
    [protocol_version |-> version, server_name |-> name, capabilities |-> caps]

NoHandshake == HandshakeResult("", "", <<>>)

\* the response built when both handshake requests fail
MinimalHandshake == HandshakeResult("1.0", "unknown", <<>>)

\* capability maps a remote server may advertise (the names of its entries)
HandshakeMaps == {<<>>, <<"search", "logging">>}

\* what one HTTP request can come to: a 2xx response, an httpx.HTTPError
\* (transport failure or raise_for_status on a non-2xx status), or a 2xx
\* response whose body json()/McpHandshakeResponse(**...) rejects
ProbeOutcomes == {"ok", "http_error"}

HandshakeOutcomes == {"ok", "http_error", "malformed"}

\* an exception: its class, the status code of an HTTPException (0 for the
\* others), its message
Error(exc, status, msg) == [exc |-> exc, status |-> status, msg |-> msg]

NoError == Error("", 0, "")

\* one outbound request, with its headers and JSON body, and what came back
Request(method, path, url, headers, body, outcome) ==
    [method |-> method, path |-> path, url |-> url, headers |-> headers,
     body |-> body, outcome |-> outcome]

NoBody == Map(<<>>)

\* McpHandshakeRequest(protocol_version="1.0", client_info={...}).model_dump()
handshake_request ==
    Map([protocol_version |-> Str("1.0"),
         client_info |-> Map([name |-> Str("SprintConnect"),
                              version |-> Str("1.0.0")])])

\* variant of _build_auth_headers that sends a token whatever the type is
build_auth_headers_any_type(auth) ==
    IF auth.present /\ auth.token # ""
    THEN ("Authorization" :> ("Bearer " \o auth.token))
         @@ [k \in {"Content-Type"} |-> "application/json"]
    ELSE [k \in {"Content-Type"} |-> "application/json"]

\* _build_auth_headers: headers[name] = value overrides an entry of that name
build_auth_headers(auth) ==
    LET headers == [k \in {"Content-Type"} |-> "application/json"]
    IN IF auth.present /\ auth.type = "bearer_token" /\ auth.token # ""
       THEN ("Authorization" :> ("Bearer " \o auth.token)) @@ headers
       ELSE IF auth.present /\ auth.type = "api_key" /\ auth.api_key # ""
       THEN ((IF auth.header_name # "" THEN auth.header_name ELSE "X-API-Key")
                :> auth.api_key) @@ headers
       ELSE headers

----------------------------------------------------------------------------
(* Sessions and rows *)

EmptySession == [servers |-> {}, credentials |-> <<>>, capabilities |-> <<>>]

IdleAtt ==
    [op |-> "", entry |-> "", spec_url |-> Url("", ""),
     spec |-> NoSpec, url |-> Url("", ""), auth |-> NoAuth,
     env |-> "none", org |-> "", sec |-> "none", reqs |-> <<>>,
     hs |-> NoHandshake, err |-> NoError, sid |-> 0,
     before |-> <<{}, <<>>, <<>>>>, result |-> <<>>]

ServerRow(id, org, name, env, url, status, metadata) ==
    [id |-> id, org_id |-> org, name |-> name, environment |-> env,
     base_url |-> url, status |-> status, deleted |-> FALSE,
     server_metadata |-> metadata]

CredentialRow(sid, type, vault_path, metadata) ==
    [mcp_server_id |-> sid, credential_type |-> type, vault_path |-> vault_path,
     credential_metadata |-> metadata]

\* keys whose lower-case form contains password, secret, token, key or
\* credential
SensitiveKey(key) ==
    key \in {"password", "client_secret", "auth_token", "api_key", "credential_ref",
             "token", "API_KEY"}

Redacted == Str("[REDACTED]")

RECURSIVE sanitize_metadata(_)
\* the dict with the value of every sensitive key replaced by the marker;
\* the function calls itself on a value that is a dict, and copies every
\* other value, a list included, as it is
sanitize_metadata(metadata) ==
    [k \in DOMAIN metadata |->
        IF SensitiveKey(k) THEN Redacted
        ELSE IF IsMap(metadata[k]) THEN Map(sanitize_metadata(metadata[k].map))
        ELSE metadata[k]]

\* spec.model_dump(): nested models become dicts, tools and resources lists
\* of dicts.  The content of schemas is not kept, only its size.
model_dump(spec) ==
    [server_info |-> Map([name |-> Str(spec.name), version |-> Str(spec.version),
                          capabilities |-> Map(spec.capabilities)]),
     resources |-> List([i \in DOMAIN spec.resources |->
                            Map([uri |-> Str(spec.resources[i])])]),
     tools |-> List([i \in DOMAIN spec.tools |->
                        Map([name |-> Str(spec.tools[i]),
                             input_schema |->
                                 Map([type |-> Str("object"),
                                      properties |-> Map(spec.tool_properties)])])]),
     schemas |-> Map(<<>>)]

\* the dict _create_server_record hands to sanitize_metadata for the server
server_metadata(spec) ==
    sanitize_metadata([version |-> Str(spec.version),
                       capabilities |-> Map(spec.capabilities),
                       schemas |-> Map(<<>>),
                       specification |-> Map(model_dump(spec))])

\* the auth_config dict as the caller passed it
auth_config_dict(auth) ==
    LET keys == {"type"}
                \cup (IF auth.vault_path # <<>> THEN {"vault_path"} ELSE {})
                \cup (IF auth.token # "" THEN {"token"} ELSE {})
                \cup (IF auth.api_key # "" THEN {"api_key"} ELSE {})
                \cup (IF auth.header_name # "" THEN {"header_name"} ELSE {})
    IN [k \in keys |->
           CASE k = "type" -> Str(auth.type)
             [] k = "vault_path" -> Segments(auth.vault_path)
             [] k = "token" -> Str(auth.token)
             [] k = "api_key" -> Str(auth.api_key)
             [] k = "header_name" -> Str(auth.header_name)]

\* kind tells the three loops of _store_capabilities apart; the provenance
\* is the discovered_from entry of capability_metadata
CapabilityRow(sid, name, kind, from) ==
    [mcp_server_id |-> sid, name |-> name, kind |-> kind,
     capability_metadata |-> sanitize_metadata([discovered_from |-> Str(from)])]

\* the rows a query of worker p sees: the committed rows and its own
\* flushed ones
Visible(p) == servers \cup session[p].servers

----------------------------------------------------------------------------
(* McpRegistrationService.register_from_specification *)

\* variant of the except clause without db.rollback(): the pending rows
\* stay in the session
AbortWithoutRollback(p, a, err) ==
    /\ pc' = [pc EXCEPT ![p] = "aborted"]
    /\ att' = [att EXCEPT ![p] = [a EXCEPT !.err = err]]
    /\ UNCHANGED session

\* the except clause of register_from_specification: rollback and re-raise;
\* a holds the locals of p at the raise
Abort(p, a, err) ==
    /\ session' = [session EXCEPT ![p] = EmptySession]
    /\ pc' = [pc EXCEPT ![p] = "aborted"]
    /\ att' = [att EXCEPT ![p] = [a EXCEPT !.err = err]]

\* register_from_specification is entered, by the caller named entry, with
\* environment env ("none" for None)
BeginRegistration(p, entry, spec_url, spec, url, auth, env, org, reqs, before) ==
    /\ pc' = [pc EXCEPT ![p] = "validate"]
    /\ att' = [att EXCEPT ![p] = [IdleAtt EXCEPT !.op = "register_from_specification",
                                                 !.entry = entry,
                                                 !.spec_url = spec_url,
                                                 !.spec = spec, !.url = url,
                                                 !.auth = auth, !.env = env,
                                                 !.org = org, !.reqs = reqs,
                                                 !.before = before]]
    /\ UNCHANGED <<settings, servers, credentials, capabilities, session, nextId>>

StartRegister(p, spec, url, auth, env, org) ==
    /\ pc[p] = "idle"
    /\ nextId <= MaxServers
    /\ BeginRegistration(p, "register_from_specification", Url("", ""), spec, url, auth,
                         env, org, <<>>, store)

\* variant of _validate_specification without the two uniqueness checks
validate_specification_without_uniqueness(spec) ==
    IF spec.name = "" \/ spec.version = ""
    THEN "Server name and version are required"
    ELSE IF spec.schemas_size > 0 /\ spec.schemas_size > SchemasLimit
    THEN "Schemas size exceeds 64KB limit"
    ELSE ""

\* _validate_specification: the message of the ValueError, "" when it returns
validate_specification(spec) ==
    IF spec.name = "" \/ spec.version = ""
    THEN "Server name and version are required"
    ELSE IF Len(spec.tools) > 0 /\ Len(spec.tools) # Cardinality(Range(spec.tools))
    THEN "Tool names must be unique"
    ELSE IF Len(spec.resources) > 0
            /\ Len(spec.resources) # Cardinality(Range(spec.resources))
    THEN "Resource URIs must be unique"
    ELSE IF spec.schemas_size > 0 /\ spec.schemas_size > SchemasLimit
    THEN "Schemas size exceeds 64KB limit"
    ELSE ""

\* step 1
ValidateSpecification(p) ==
    /\ pc[p] = "validate"
    /\ LET msg == validate_specification(att[p].spec)
       IN IF msg # ""
          THEN Abort(p, att[p], Error("ValueError", 0, msg))
          ELSE /\ pc' = [pc EXCEPT ![p] = "security"]
               /\ UNCHANGED <<session, att>>
    /\ UNCHANGED <<settings, servers, credentials, capabilities, nextId>>

\* step 2: validate_url_security(endpoint_url) returns (is_allowed, reason);
\* the caller drops the tuple and goes on
SecurityCheck(p) ==
    /\ pc[p] = "security"
    /\ LET verdict == validate_url_security(att[p].url, settings.ALLOWED_EGRESS_HOSTS,
                                            settings.ENVIRONMENT)
       IN att' = [att EXCEPT ![p].sec = IF verdict.allowed THEN "allowed" ELSE "denied"]
    /\ pc' = [pc EXCEPT ![p] = "probe"]
    /\ UNCHANGED <<settings, servers, credentials, capabilities, session, nextId>>

\* variant of the first request that tries GET <endpoint>/ whatever the
\* answer to GET <endpoint>/health was
ProbePrimaryThenFallback(p) ==
    /\ pc[p] = "probe"
    /\ \E outcome \in ProbeOutcomes :
          /\ att' = [att EXCEPT ![p].reqs = Append(@, Request("GET", "/health", att[p].url,
                               build_auth_headers(att[p].auth), NoBody, outcome))]
          /\ pc' = [pc EXCEPT ![p] = "probe_fallback"]
    /\ UNCHANGED <<settings, servers, credentials, capabilities, session, nextId>>

\* step 3, first request of _test_server_connectivity: GET <endpoint>/health
ProbePrimary(p) ==
    /\ pc[p] = "probe"
    /\ \E outcome \in ProbeOutcomes :
          /\ att' = [att EXCEPT ![p].reqs = Append(@, Request("GET", "/health", att[p].url,
                               build_auth_headers(att[p].auth), NoBody, outcome))]
          /\ pc' = [pc EXCEPT ![p] = IF outcome = "ok" THEN "handshake"
                                                      ELSE "probe_fallback"]
    /\ UNCHANGED <<settings, servers, credentials, capabilities, session, nextId>>

\* variant of the except branch that goes on to the handshake when GET
\* <endpoint>/ fails as well
ProbeFallbackTolerant(p) ==
    /\ pc[p] = "probe_fallback"
    /\ \E outcome \in ProbeOutcomes :
          /\ att' = [att EXCEPT ![p].reqs = Append(@, Request("GET", "/", att[p].url,
                               build_auth_headers(att[p].auth), NoBody, outcome))]
          /\ pc' = [pc EXCEPT ![p] = "handshake"]
          /\ UNCHANGED session
    /\ UNCHANGED <<settings, servers, credentials, capabilities, nextId>>

\* variant of the except branch that sends GET <endpoint>/ once more when
\* it has failed
ProbeFallbackRetrying(p) ==
    /\ pc[p] = "probe_fallback"
    /\ \E outcome \in ProbeOutcomes :
          LET a == [att[p] EXCEPT !.reqs = Append(@, Request("GET", "/", att[p].url,
                               build_auth_headers(att[p].auth), NoBody, outcome))]
          IN IF outcome = "ok"
             THEN /\ att' = [att EXCEPT ![p] = a]
                  /\ pc' = [pc EXCEPT ![p] = "handshake"]
                  /\ UNCHANGED session
             ELSE IF Len(a.reqs) < 3
             THEN /\ att' = [att EXCEPT ![p] = a]
                  /\ UNCHANGED <<pc, session>>
             ELSE Abort(p, a, Error("ValueError", 0, "Server connectivity test failed"))
    /\ UNCHANGED <<settings, servers, credentials, capabilities, nextId>>

\* step 3, the except branch: GET <endpoint>/, and ValueError when it fails too
ProbeFallback(p) ==
    /\ pc[p] = "probe_fallback"
    /\ \E outcome \in ProbeOutcomes :
          LET a == [att[p] EXCEPT !.reqs = Append(@, Request("GET", "/", att[p].url,
                               build_auth_headers(att[p].auth), NoBody, outcome))]
          IN IF outcome = "ok"
             THEN /\ att' = [att EXCEPT ![p] = a]
                  /\ pc' = [pc EXCEPT ![p] = "handshake"]
                  /\ UNCHANGED session
             ELSE Abort(p, a, Error("ValueError", 0, "Server connectivity test failed"))
    /\ UNCHANGED <<settings, servers, credentials, capabilities, nextId>>

\* where the caller of _perform_handshake goes on: _create_server_record in
\* register_from_specification, _store_capabilities in discover_capabilities
AfterHandshake(p) ==
    IF att[p].op = "discover_capabilities" THEN "store" ELSE "create"

\* variant of the first handshake request that posts to <endpoint>/handshake
\* as well when <endpoint>/mcp/handshake has answered
HandshakePrimaryThenFallback(p) ==
    /\ pc[p] = "handshake"
    /\ \E outcome \in HandshakeOutcomes :
          /\ att' = [att EXCEPT ![p].reqs =
                        Append(@, Request("POST", "/mcp/handshake", att[p].url,
                                          build_auth_headers(att[p].auth),
                                          handshake_request, outcome))]
          /\ pc' = [pc EXCEPT ![p] = "handshake_fallback"]
    /\ UNCHANGED <<settings, servers, credentials, capabilities, session, nextId>>

\* step 4, first request of _perform_handshake: POST <endpoint>/mcp/handshake.
\* An httpx.HTTPError leads to the fallback; what json() or
\* McpHandshakeResponse(**...) raise on a 2xx body is no httpx.HTTPError and
\* leaves the function
HandshakePrimary(p) ==
    /\ pc[p] = "handshake"
    /\ \E outcome \in HandshakeOutcomes, caps \in HandshakeMaps :
          LET a == [att[p] EXCEPT
                      !.reqs = Append(@, Request("POST", "/mcp/handshake", att[p].url,
                               build_auth_headers(att[p].auth), handshake_request,
                               outcome))]
          IN CASE outcome = "ok" ->
                    /\ att' = [att EXCEPT ![p] =
                                  [a EXCEPT !.hs = HandshakeResult("1.0", "remote", caps)]]
                    /\ pc' = [pc EXCEPT ![p] = AfterHandshake(p)]
                    /\ UNCHANGED session
               [] outcome = "http_error" ->
                    /\ att' = [att EXCEPT ![p] = a]
                    /\ pc' = [pc EXCEPT ![p] = "handshake_fallback"]
                    /\ UNCHANGED session
               [] outcome = "malformed" ->
                    Abort(p, a, Error("ValidationError", 0, "invalid handshake response"))
    /\ UNCHANGED <<settings, servers, credentials, capabilities, nextId>>

\* variant of the except branch that raises when POST <endpoint>/handshake
\* fails, in place of the minimal response
HandshakeFallbackStrict(p) ==
    /\ pc[p] = "handshake_fallback"
    /\ \E outcome \in HandshakeOutcomes, caps \in HandshakeMaps :
          LET a == [att[p] EXCEPT
                      !.reqs = Append(@, Request("POST", "/handshake", att[p].url,
                               build_auth_headers(att[p].auth), handshake_request,
                               outcome))]
          IN IF outcome = "ok"
             THEN /\ att' = [att EXCEPT ![p] =
                                [a EXCEPT !.hs = HandshakeResult("1.0", "remote", caps)]]
                  /\ pc' = [pc EXCEPT ![p] = AfterHandshake(p)]
                  /\ UNCHANGED session
             ELSE Abort(p, a, Error("ValueError", 0, "handshake failed"))
    /\ UNCHANGED <<settings, servers, credentials, capabilities, nextId>>

\* step 4, the except branch: POST <endpoint>/handshake, and the minimal
\* response when that raises httpx.HTTPError too
HandshakeFallback(p) ==
    /\ pc[p] = "handshake_fallback"
    /\ \E outcome \in HandshakeOutcomes, caps \in HandshakeMaps :
          LET a == [att[p] EXCEPT
                      !.reqs = Append(@, Request("POST", "/handshake", att[p].url,
                               build_auth_headers(att[p].auth), handshake_request,
                               outcome))]
          IN CASE outcome = "ok" ->
                    /\ att' = [att EXCEPT ![p] =
                                  [a EXCEPT !.hs = HandshakeResult("1.0", "remote", caps)]]
                    /\ pc' = [pc EXCEPT ![p] = AfterHandshake(p)]
                    /\ UNCHANGED session
               [] outcome = "http_error" ->
                    /\ att' = [att EXCEPT ![p] = [a EXCEPT !.hs = MinimalHandshake]]
                    /\ pc' = [pc EXCEPT ![p] = AfterHandshake(p)]
                    /\ UNCHANGED session
               [] outcome = "malformed" ->
                    Abort(p, a, Error("ValidationError", 0, "invalid handshake response"))
    /\ UNCHANGED <<settings, servers, credentials, capabilities, nextId>>

\* environment or ("development" if settings.DEBUG else "production")
server_environment(environment) ==
    IF environment # "none" THEN environment
    ELSE IF settings.DEBUG THEN "development" ELSE "production"

\* variant of the duplicate query that leaves the environment out of the
\* filter
existing_server_any_environment(rows, org, name, environment) ==
    \E s \in rows : /\ s.org_id = org
                    /\ s.name = name
                    /\ ~s.deleted

\* the duplicate query: a non-deleted row of the organization with that name
\* and environment, among the rows the session sees
existing_server(rows, org, name, environment) ==
    \E s \in rows : /\ s.org_id = org
                    /\ s.name = name
                    /\ s.environment = environment
                    /\ ~s.deleted

AlreadyExists == "Server with name already exists in environment"

\* step 5, _create_server_record: duplicate pre-check, server row, flush,
\* credential row.  flush() may fail in the store.
CreateServerRecord(p) ==
    /\ pc[p] = "create"
    /\ LET env == server_environment(att[p].env)
           a == att[p]
       IN IF existing_server(Visible(p), a.org, a.spec.name, env)
          THEN /\ Abort(p, a, Error("HTTPException", 400, AlreadyExists))
               /\ UNCHANGED nextId
          ELSE \/ /\ nextId <= MaxServers
                  /\ session' = [session EXCEPT ![p] =
                        [@ EXCEPT
                           !.servers = @ \cup {ServerRow(nextId, a.org, a.spec.name,
                                                         env, a.url, "active",
                                                         server_metadata(a.spec))},
                           !.credentials =
                               IF a.auth.present
                               THEN Append(@, CredentialRow(nextId, a.auth.type,
                                        a.auth.vault_path,
                                        sanitize_metadata(auth_config_dict(a.auth))))
                               ELSE @]]
                  /\ att' = [att EXCEPT ![p].sid = nextId]
                  /\ nextId' = nextId + 1
                  /\ pc' = [pc EXCEPT ![p] = "store"]
               \/ /\ Abort(p, a, Error("SQLAlchemyError", 0, "flush failed"))
                  /\ UNCHANGED nextId
    /\ UNCHANGED <<settings, servers, credentials, capabilities>>

RECURSIVE Rows(_, _, _, _)
\* one capability row per element of names, in order
Rows(sid, names, kind, from) ==
    IF names = <<>> THEN <<>>
    ELSE <<CapabilityRow(sid, Head(names), kind, from)>>
         \o Rows(sid, Tail(names), kind, from)

\* variant of _store_capabilities that leaves out a handshake capability
\* named like a declared tool
capability_rows_merged(sid, spec, hs) ==
    Rows(sid, spec.tools, "tool", "specification")
    \o Rows(sid, spec.resources, "resource", "specification")
    \o Rows(sid, SelectSeq(hs.capabilities, LAMBDA c : c \notin Range(spec.tools)),
            "capability", "handshake")

\* the rows _store_capabilities adds for (server, spec, handshake_response);
\* spec is NoSpec when the caller passes None
capability_rows(sid, spec, hs) ==
    Rows(sid, spec.tools, "tool", "specification")
    \o Rows(sid, spec.resources, "resource", "specification")
    \o Rows(sid, hs.capabilities, "capability", "handshake")

\* step 6
StoreCapabilities(p) ==
    /\ pc[p] = "store"
    /\ session' = [session EXCEPT ![p].capabilities =
                       @ \o capability_rows(att[p].sid, att[p].spec, att[p].hs)]
    /\ pc' = [pc EXCEPT ![p] = "commit"]
    /\ UNCHANGED <<settings, servers, credentials, capabilities, att, nextId>>

\* variant of the commit in which the capability rows of the session take
\* the place of the rows their servers had
commit_replacing(p) ==
    /\ servers' = servers \cup session[p].servers
    /\ credentials' = credentials \o session[p].credentials
    /\ capabilities' =
          SelectSeq(capabilities,
                    LAMBDA r : \A i \in DOMAIN session[p].capabilities :
                                  session[p].capabilities[i].mcp_server_id # r.mcp_server_id)
          \o session[p].capabilities
    /\ session' = [session EXCEPT ![p] = EmptySession]

\* db.commit(): every row of the session reaches the store at once
commit(p) ==
    /\ servers' = servers \cup session[p].servers
    /\ credentials' = credentials \o session[p].credentials
    /\ capabilities' = capabilities \o session[p].capabilities
    /\ session' = [session EXCEPT ![p] = EmptySession]

\* step 7; a commit the store refuses raises and the except clause rolls back
Commit(p) ==
    /\ pc[p] = "commit"
    /\ \/ /\ commit(p)
          /\ pc' = [pc EXCEPT ![p] = "committed"]
          /\ UNCHANGED att
       \/ /\ Abort(p, att[p], Error("SQLAlchemyError", 0, "commit failed"))
          /\ UNCHANGED <<servers, credentials, capabilities>>
    /\ UNCHANGED <<settings, nextId>>

\* the operation has returned or raised; the worker takes the next request
Finish(p) ==
    /\ pc[p] \in {"committed", "aborted", "returned", "raised"}
    /\ pc' = [pc EXCEPT ![p] = "idle"]
    /\ att' = [att EXCEPT ![p] = IdleAtt]
    /\ UNCHANGED <<settings, servers, credentials, capabilities, session, nextId>>

----------------------------------------------------------------------------
(* McpServerService: create_server, update_server, delete_server *)

\* a path segment made of letters, digits, "-" and "_" only (it may be empty)
SegmentWellFormed(segment) == segment \notin {"to ken", ".."}

\* vault_path.startswith(f"mcp/{org_id}/") and re.match on the character
\* class; a path is the sequence of its "/"-separated segments
validate_vault_path(vault_path, org) ==
    /\ Len(vault_path) >= 3
    /\ vault_path[1] = "mcp"
    /\ vault_path[2] = org
    /\ \A i \in 1..Len(vault_path) : SegmentWellFormed(vault_path[i])

VaultAuth(org) == AuthConfig("bearer_token", <<"mcp", org, "token">>, "", "", "")

\* the except clauses of the service methods: rollback, and HTTPException
Raise(p, a, err) ==
    /\ session' = [session EXCEPT ![p] = EmptySession]
    /\ pc' = [pc EXCEPT ![p] = "raised"]
    /\ att' = [att EXCEPT ![p] = [a EXCEPT !.err = err]]
    /\ UNCHANGED <<servers, credentials, capabilities, nextId>>

CreateServer(p, name, env, url, auth, org) ==
    /\ pc[p] = "idle"
    /\ LET a == [IdleAtt EXCEPT !.op = "create_server", !.org = org,
                                !.spec = [NoSpec EXCEPT !.name = name],
                                !.env = env, !.before = store]
       IN IF ~validate_mcp_server_url(url, env)
          THEN Raise(p, a, Error("HTTPException", 400, "URL validation failed"))
          ELSE IF existing_server(Visible(p), org, name, env)
          THEN Raise(p, a, Error("HTTPException", 409, AlreadyExists))
          ELSE IF auth.present /\ ~validate_vault_path(auth.vault_path, org)
          THEN Raise(p, a, Error("HTTPException", 400,
                                 "Invalid vault path format or organization scope"))
          ELSE \/ /\ nextId <= MaxServers
                  /\ servers' = servers
                        \cup {ServerRow(nextId, org, name, env, url, "pending_discovery",
                                        sanitize_metadata(<<>>))}
                  /\ credentials' =
                        IF auth.present
                        THEN Append(credentials,
                                    CredentialRow(nextId, auth.type, auth.vault_path, <<>>))
                        ELSE credentials
                  /\ nextId' = nextId + 1
                  /\ pc' = [pc EXCEPT ![p] = "returned"]
                  /\ att' = [att EXCEPT ![p] = [a EXCEPT !.sid = nextId]]
                  /\ UNCHANGED <<capabilities, session>>
               \/ Raise(p, a, Error("HTTPException", 500, "Failed to create MCP server"))
    /\ UNCHANGED settings

\* variant of get_server that leaves org_id out of the filter
get_server_any_organization(rows, id, org) ==
    {s \in rows : s.id = id /\ ~s.deleted}

\* variant of get_server that leaves deleted_at out of the filter
get_server_with_deleted(rows, id, org) ==
    {s \in rows : s.id = id /\ s.org_id = org}

\* get_server: the non-deleted row of the caller's organization with that id
get_server(rows, id, org) ==
    {s \in rows : s.id = id /\ s.org_id = org /\ ~s.deleted}

\* get_server as a request of its own: the row, or 404
GetServer(p, id, org) ==
    /\ pc[p] = "idle"
    /\ LET a == [IdleAtt EXCEPT !.op = "get_server", !.org = org, !.sid = id,
                                !.before = store]
           found == get_server(Visible(p), id, org)
       IN IF found = {}
          THEN /\ pc' = [pc EXCEPT ![p] = "raised"]
               /\ att' = [att EXCEPT ![p] =
                     [a EXCEPT !.err = Error("HTTPException", 404, "MCP server not found")]]
          ELSE /\ pc' = [pc EXCEPT ![p] = "returned"]
               /\ att' = [att EXCEPT ![p] =
                     [a EXCEPT !.result = <<CHOOSE s \in found : TRUE>>]]
    /\ UNCHANGED <<settings, servers, credentials, capabilities, session, nextId>>

RECURSIVE newest_first(_)
\* order_by(desc(created_at)): ids are handed out in creation order
newest_first(rows) ==
    IF rows = {} THEN <<>>
    ELSE LET newest == CHOOSE s \in rows : \A t \in rows : t.id <= s.id
         IN <<newest>> \o newest_first(rows \ {newest})

\* list_servers with the environment and status filters ("none": not given);
\* tags and search are not given, and the page (limit 20, offset 0) holds
\* every row
list_servers(rows, org, environment, status) ==
    newest_first({s \in rows : /\ s.org_id = org
                               /\ ~s.deleted
                               /\ environment # "none" => s.environment = environment
                               /\ status # "none" => s.status = status})

ListServers(p, org, environment, status) ==
    /\ pc[p] = "idle"
    /\ pc' = [pc EXCEPT ![p] = "returned"]
    /\ att' = [att EXCEPT ![p] =
          [IdleAtt EXCEPT !.op = "list_servers", !.org = org, !.env = environment,
                          !.before = store,
                          !.result = list_servers(Visible(p), org, environment, status)]]
    /\ UNCHANGED <<settings, servers, credentials, capabilities, session, nextId>>

\* the duplicate query of update_server: name is checked in the row's
\* present environment, and only when the name changes
update_conflict(rows, server, name, org) ==
    /\ name # "none"
    /\ name # server.name
    /\ \E s \in rows : /\ s.org_id = org
                       /\ s.name = name
                       /\ s.environment = server.environment
                       /\ s.id # server.id
                       /\ ~s.deleted

\* setattr(server, field, value) for every field the update sets
updated_row(server, name, env, url) ==
    [server EXCEPT !.name = IF name # "none" THEN name ELSE @,
                   !.environment = IF env # "none" THEN env ELSE @,
                   !.base_url = IF url.scheme # "" THEN url ELSE @]

\* variant that adds the new credential and leaves the old rows in place
add_credential(rows, id, auth) ==
    Append(rows, CredentialRow(id, auth.type, auth.vault_path, <<>>))

\* the credential part of update_server: the rows of the server are deleted,
\* then the new row is added
replace_credential(rows, id, auth) ==
    Append(SelectSeq(rows, LAMBDA c : c.mcp_server_id # id),
           CredentialRow(id, auth.type, auth.vault_path, <<>>))

\* name, env "none" and url Url("", "") stand for fields the update leaves unset
UpdateServer(p, id, name, env, url, auth, org) ==
    /\ pc[p] = "idle"
    /\ LET a == [IdleAtt EXCEPT !.op = "update_server", !.org = org, !.sid = id,
                                !.before = store]
           found == get_server(Visible(p), id, org)
       IN IF found = {}
          THEN Raise(p, a, Error("HTTPException", 404, "MCP server not found"))
          ELSE LET server == CHOOSE s \in found : TRUE
               IN IF url.scheme # "" /\ ~validate_mcp_server_url(url, server.environment)
                  THEN Raise(p, a, Error("HTTPException", 400, "URL validation failed"))
                  ELSE IF update_conflict(Visible(p), server, name, org)
                  THEN Raise(p, a, Error("HTTPException", 409, AlreadyExists))
                  ELSE IF auth.present /\ ~validate_vault_path(auth.vault_path, org)
                  THEN Raise(p, a, Error("HTTPException", 400,
                                         "Invalid vault path format or organization scope"))
                  ELSE \/ /\ servers' = (servers \ {server})
                                \cup {updated_row(server, name, env, url)}
                          /\ credentials' =
                                IF auth.present
                                THEN replace_credential(credentials, id, auth)
                                ELSE credentials
                          /\ pc' = [pc EXCEPT ![p] = "returned"]
                          /\ att' = [att EXCEPT ![p] = a]
                          /\ UNCHANGED <<capabilities, session, nextId>>
                       \/ Raise(p, a, Error("HTTPException", 500,
                                            "Failed to update MCP server"))
    /\ UNCHANGED settings

DeleteServer(p, id, org) ==
    /\ pc[p] = "idle"
    /\ LET a == [IdleAtt EXCEPT !.op = "delete_server", !.org = org, !.sid = id,
                                !.before = store]
           found == get_server(Visible(p), id, org)
       IN IF found = {}
          THEN Raise(p, a, Error("HTTPException", 404, "MCP server not found"))
          ELSE LET server == CHOOSE s \in found : TRUE
               IN \/ /\ servers' = (servers \ {server})
                           \cup {[server EXCEPT !.deleted = TRUE, !.status = "deleted"]}
                     /\ pc' = [pc EXCEPT ![p] = "returned"]
                     /\ att' = [att EXCEPT ![p] = a]
                     /\ UNCHANGED <<credentials, capabilities, session, nextId>>
                  \/ Raise(p, a, Error("HTTPException", 500,
                                       "Failed to delete MCP server"))
    /\ UNCHANGED settings

----------------------------------------------------------------------------
(* The other callers of register_from_specification *)

\* what open(), json.load() and McpServerSpecification(**spec_data) come to
FileOutcomes == {"ok", "not_found", "invalid_json", "invalid_specification"}

\* register_from_json_file: the specification is read from the file, and
\* register_from_specification is called with request_id in the place of
\* environment
RegisterFromJsonFile(p, outcome, spec, url, auth, request_id, org) ==
    /\ pc[p] = "idle"
    /\ nextId <= MaxServers
    /\ IF outcome = "ok"
       THEN BeginRegistration(p, "register_from_json_file", Url("", ""), spec, url, auth,
                              request_id, org, <<>>, store)
       ELSE /\ pc' = [pc EXCEPT ![p] = "raised"]
            /\ att' = [att EXCEPT ![p] =
                  [IdleAtt EXCEPT
                     !.op = "register_from_json_file",
                     !.entry = "register_from_json_file",
                     !.url = url, !.auth = auth, !.org = org, !.before = store,
                     !.err = CASE outcome = "not_found" ->
                                    Error("ValueError", 0, "Specification file not found")
                               [] outcome = "invalid_json" ->
                                    Error("ValueError", 0,
                                          "Invalid JSON in specification file")
                               [] OTHER ->
                                    Error("ValidationError", 0, "invalid specification")]]
            /\ UNCHANGED <<settings, servers, credentials, capabilities, session, nextId>>

\* register_from_url, up to the call of _load_specification_from_url; env
\* holds the request_id until the specification is there
StartRegisterFromUrl(p, spec_url, url, auth, request_id, org) ==
    /\ pc[p] = "idle"
    /\ nextId <= MaxServers
    /\ pc' = [pc EXCEPT ![p] = "fetch"]
    /\ att' = [att EXCEPT ![p] = [IdleAtt EXCEPT !.op = "register_from_url",
                                                 !.entry = "register_from_url",
                                                 !.spec_url = spec_url, !.url = url,
                                                 !.auth = auth, !.env = request_id,
                                                 !.org = org, !.before = store]]
    /\ UNCHANGED <<settings, servers, credentials, capabilities, session, nextId>>

\* _load_specification_from_url: validate_url_security(spec_url) with its
\* result dropped, then GET spec_url; an httpx.HTTPError becomes ValueError,
\* anything else is re-raised.  specs are the documents the remote may serve.
LoadSpecificationFromUrl(p, specs) ==
    /\ pc[p] = "fetch"
    /\ \E outcome \in HandshakeOutcomes, spec \in specs :
          LET a == att[p]
              verdict == validate_url_security(a.spec_url, settings.ALLOWED_EGRESS_HOSTS,
                                               settings.ENVIRONMENT)
              reqs == <<Request("GET", "", a.spec_url, <<>>, NoBody, outcome)>>
          IN CASE outcome = "ok" ->
                    /\ BeginRegistration(p, "register_from_url", a.spec_url, spec, a.url,
                                         a.auth, a.env, a.org, reqs, a.before)
               [] outcome = "http_error" ->
                    /\ pc' = [pc EXCEPT ![p] = "raised"]
                    /\ att' = [att EXCEPT ![p] =
                          [a EXCEPT !.reqs = reqs,
                                    !.sec = IF verdict.allowed THEN "allowed" ELSE "denied",
                                    !.err = Error("ValueError", 0,
                                                  "Failed to fetch specification from URL")]]
                    /\ UNCHANGED <<settings, servers, credentials, capabilities,
                                   session, nextId>>
               [] outcome = "malformed" ->
                    /\ pc' = [pc EXCEPT ![p] = "raised"]
                    /\ att' = [att EXCEPT ![p] =
                          [a EXCEPT !.reqs = reqs,
                                    !.sec = IF verdict.allowed THEN "allowed" ELSE "denied",
                                    !.err = Error("ValidationError", 0,
                                                  "invalid specification")]]
                    /\ UNCHANGED <<settings, servers, credentials, capabilities,
                                   session, nextId>>

\* create_mcp_server_legacy: a specification without tools and resources
\* built from the dictionary, and server_data.get("environment") passed on
\* as it is
CreateMcpServerLegacy(p, name, url, auth, environment, org) ==
    /\ pc[p] = "idle"
    /\ nextId <= MaxServers
    /\ BeginRegistration(p, "create_mcp_server_legacy", Url("", ""),
                         [NoSpec EXCEPT !.name = name, !.version = "1.0.0"],
                         url, auth, environment, org, <<>>, store)

\* the HTTP response of the endpoint that called the service method entry,
\* when the method raised err.  register_mcp_server_from_specification has no
\* "except HTTPException: raise" before its "except Exception"; the other
\* three re-raise an HTTPException as it is.  pydantic's ValidationError is a
\* ValueError; the legacy endpoint answers 422 when the message holds
\* "validation error" and lets every other ValueError through to the
\* framework.
Response(status, detail) == [status |-> status, detail |-> detail]

http_response(entry, err) ==
    CASE err.exc = "HTTPException" ->
            IF entry = "register_from_specification"
            THEN Response(500, "Internal server error")
            ELSE Response(err.status, err.msg)
      [] err.exc \in {"ValueError", "ValidationError"} ->
            IF entry # "create_mcp_server_legacy" THEN Response(400, err.msg)
            ELSE IF err.exc = "ValidationError" THEN Response(422, err.msg)
            ELSE Response(500, "unhandled ValueError")
      [] OTHER -> Response(500, "Internal server error")

----------------------------------------------------------------------------
(* McpRegistrationService.discover_capabilities *)

\* the auth_config built from the first credential row of the server
discovery_auth(rows, id) ==
    LET own == SelectSeq(rows, LAMBDA c : c.mcp_server_id = id)
    IN IF own = <<>> THEN NoAuth
       ELSE AuthConfig(own[1].credential_type, own[1].vault_path, "", "", "")

\* the server query and the credential query; "Server not found" is raised
\* before the try block.  The handshake, _store_capabilities(server, None,
\* handshake_response) and the commit follow as steps of their own.
StartDiscover(p, id, org) ==
    /\ pc[p] = "idle"
    /\ Len(capabilities) < MaxCapabilityRows
    /\ LET found == get_server(Visible(p), id, org)
           a == [IdleAtt EXCEPT !.op = "discover_capabilities", !.org = org,
                                !.sid = id, !.before = store]
       IN IF found = {}
          THEN /\ pc' = [pc EXCEPT ![p] = "raised"]
               /\ att' = [att EXCEPT ![p] =
                             [a EXCEPT !.err = Error("ValueError", 0, "Server not found")]]
          ELSE LET server == CHOOSE s \in found : TRUE
               IN /\ pc' = [pc EXCEPT ![p] = "handshake"]
                  /\ att' = [att EXCEPT ![p] =
                                [a EXCEPT !.url = server.base_url,
                                          !.auth = discovery_auth(
                                                      credentials \o session[p].credentials,
                                                      id)]]
    /\ UNCHANGED <<settings, servers, credentials, capabilities, session, nextId>>

----------------------------------------------------------------------------
(* Calls of the egress validator on their own *)

\* validate_url_security(url) with allowed_hosts left at None
ValidateUrlSecurity(p, url) ==
    /\ pc[p] = "idle"
    /\ LET verdict == validate_url_security(url, settings.ALLOWED_EGRESS_HOSTS,
                                            settings.ENVIRONMENT)
       IN att' = [att EXCEPT ![p] =
                     [IdleAtt EXCEPT !.op = "validate_url_security", !.url = url,
                                     !.sec = IF verdict.allowed THEN "allowed" ELSE "denied",
                                     !.err = Error("", 0, verdict.reason)]]
    /\ pc' = [pc EXCEPT ![p] = "returned"]
    /\ UNCHANGED <<settings, servers, credentials, capabilities, session, nextId>>

\* validate_mcp_server_url(url, environment): returns None or raises
\* SSRFProtectionError with the reason
ValidateMcpServerUrl(p, url, environment) ==
    /\ pc[p] = "idle"
    /\ LET verdict == mcp_server_url_verdict(url, environment)
       IN /\ att' = [att EXCEPT ![p] =
                        [IdleAtt EXCEPT !.op = "validate_mcp_server_url", !.url = url,
                                        !.env = environment,
                                        !.sec = IF verdict.allowed THEN "allowed"
                                                                   ELSE "denied",
                                        !.err = IF verdict.allowed THEN NoError
                                                ELSE Error("SSRFProtectionError", 0,
                                                           verdict.reason)]]
          /\ pc' = [pc EXCEPT ![p] = IF verdict.allowed THEN "returned" ELSE "raised"]
    /\ UNCHANGED <<settings, servers, credentials, capabilities, session, nextId>>

----------------------------------------------------------------------------
(* Specifications *)

DeploymentSettings ==
    { [ENVIRONMENT |-> "development", DEBUG |-> TRUE,
       ALLOWED_EGRESS_HOSTS |-> ALLOWED_EGRESS_HOSTS],
      [ENVIRONMENT |-> "development", DEBUG |-> FALSE,
       ALLOWED_EGRESS_HOSTS |-> ALLOWED_EGRESS_HOSTS],
      [ENVIRONMENT |-> "production", DEBUG |-> FALSE,
       ALLOWED_EGRESS_HOSTS |-> ALLOWED_EGRESS_HOSTS] }

Init ==
    /\ settings \in DeploymentSettings
    /\ servers = {}
    /\ credentials = <<>>
    /\ capabilities = <<>>
    /\ session = [p \in Procs |-> EmptySession]
    /\ pc = [p \in Procs |-> "idle"]
    /\ att = [p \in Procs |-> IdleAtt]
    /\ nextId = 1

Call(spec, url, auth, env, org) ==
    [spec |-> spec, url |-> url, auth |-> auth, env |-> env, org |-> org]

Specification(name, shape) ==
    [name |-> name, version |-> shape.version, tools |-> shape.tools,
     resources |-> shape.resources, schemas_size |-> shape.schemas_size,
     capabilities |-> shape.capabilities,
     tool_properties |-> shape.tool_properties]

ValidShapes == {s \in SpecShapes : validate_specification(Specification("payments", s)) = ""}

\* the calls of one organization: every valid specification shape with
\* every credential choice and environment argument, one call for each
\* invalid shape, and one call to the link-local endpoint
RegistrationCalls ==
    { Call(Specification("payments", s), AllowedUrl, auth, env, "orgA") :
        s \in ValidShapes, auth \in AuthConfigs, env \in EnvironmentArgs }
    \cup { Call(Specification("payments", s), AllowedUrl, NoAuth, "none", "orgA") :
             s \in SpecShapes \ ValidShapes }
    \cup { Call(Specification("payments", SpecShape("1.0.0", <<"search">>, <<"file:///r">>, 2)),
                LinkLocalUrl, NoAuth, "none", "orgA") }

Register(p, calls) ==
    \E c \in calls : StartRegister(p, c.spec, c.url, c.auth, c.env, c.org)

Pipeline(p) ==
    \/ ValidateSpecification(p)
    \/ SecurityCheck(p)
    \/ ProbePrimary(p)
    \/ ProbeFallback(p)
    \/ HandshakePrimary(p)
    \/ HandshakeFallback(p)
    \/ CreateServerRecord(p)
    \/ StoreCapabilities(p)
    \/ Commit(p)
    \/ Finish(p)

\* one worker: registration requests are served one after the other
Next == Register("w1", RegistrationCalls) \/ Pipeline("w1")

Spec == Init /\ [][Next]_vars

\* requests of one organization served one after the other: registrations
\* and the server service
CrudCalls ==
    { Call(Specification("payments", SpecShape("1.0.0", <<"search">>, <<>>, 0)),
           AllowedUrl, NoAuth, "none", "orgA") }

ServerIds == 1..MaxServers

Create(p) ==
    \E name \in Names, env \in Environments, url \in EndpointUrls,
       auth \in {NoAuth, VaultAuth("orgA"), VaultAuth("orgB")} :
        CreateServer(p, name, env, url, auth, "orgA")

Update(p) ==
    \E id \in ServerIds, name \in Names \cup {"none"},
       env \in Environments \cup {"none"}, url \in {Url("", ""), AllowedUrl},
       auth \in {NoAuth, VaultAuth("orgA")} :
        UpdateServer(p, id, name, env, url, auth, "orgA")

Delete(p) == \E id \in ServerIds : DeleteServer(p, id, "orgA")

CrudNext ==
    \/ Register("w1", CrudCalls)
    \/ Pipeline("w1")
    \/ Create("w1")
    \/ Update("w1")
    \/ Delete("w1")

CrudSpec == Init /\ [][CrudNext]_vars

\* one worker: registrations and capability discovery, one after the other
DiscoveryCalls ==
    { Call(Specification("payments", s), AllowedUrl, NoAuth, "none", "orgA") :
        s \in { SpecShape("1.0.0", <<>>, <<>>, 0),
                SpecShape("1.0.0", <<"search">>, <<>>, 0),
                SpecShape("1.0.0", <<"search", "fetch">>, <<"file:///r">>, 2) } }

Discover(p) == \E id \in ServerIds : StartDiscover(p, id, "orgA")

DiscoveryNext ==
    \/ Register("w1", DiscoveryCalls)
    \/ Pipeline("w1")
    \/ Discover("w1")

DiscoverySpec == Init /\ [][DiscoveryNext]_vars

\* the validator on every URL of a small grid, in every deployment
\* environment and with three configured allow-lists
ValidatorSchemes == {"http", "https", "ws", "wss", "ftp"}

ValidatorHostnames ==
    IpLiterals \cup {"", "api.openai.com", "localhost", "example.com",
                     "svc.internal", "bad_host!"}

ValidatorUrls == {Url(scheme, h) : scheme \in ValidatorSchemes, h \in ValidatorHostnames}

AllowLists == {{}, ALLOWED_EGRESS_HOSTS, ALLOWED_EGRESS_HOSTS \cup {"10.0.0.1"}}

ValidatorSettings ==
    { [ENVIRONMENT |-> e, DEBUG |-> FALSE, ALLOWED_EGRESS_HOSTS |-> hosts] :
        e \in Environments, hosts \in AllowLists }

ValidatorInit ==
    /\ settings \in ValidatorSettings
    /\ servers = {}
    /\ credentials = <<>>
    /\ capabilities = <<>>
    /\ session = [p \in Procs |-> EmptySession]
    /\ pc = [p \in Procs |-> "idle"]
    /\ att = [p \in Procs |-> IdleAtt]
    /\ nextId = 1

ValidatorNext ==
    \/ \E url \in ValidatorUrls : ValidateUrlSecurity("w1", url)
    \/ \E url \in ValidatorUrls, environment \in Environments :
          ValidateMcpServerUrl("w1", url, environment)
    \/ Finish("w1")

ValidatorSpec == ValidatorInit /\ [][ValidatorNext]_vars

\* one worker serving every caller of register_from_specification: the
\* service method itself, register_from_json_file, register_from_url and the
\* legacy endpoint
RequestIds == {"none", "req-7f3a"}

LegacyEnvironments == {"none", "staging", "qa"}

SpecificationUrls == {Url("https", "api.anthropic.com"), LinkLocalUrl}

EntrySpecification == Specification("payments", SpecShape("1.0.0", <<"search">>, <<>>, 0))

EntryCalls ==
    { Call(EntrySpecification, AllowedUrl, NoAuth, env, "orgA") : env \in EnvironmentArgs }

EntryNext ==
    \/ Register("w1", EntryCalls)
    \/ \E outcome \in FileOutcomes, request_id \in RequestIds :
          RegisterFromJsonFile("w1", outcome, EntrySpecification, AllowedUrl, NoAuth,
                               request_id, "orgA")
    \/ \E spec_url \in SpecificationUrls, request_id \in RequestIds :
          StartRegisterFromUrl("w1", spec_url, AllowedUrl, NoAuth, request_id, "orgA")
    \/ LoadSpecificationFromUrl("w1", {EntrySpecification})
    \/ \E environment \in LegacyEnvironments :
          CreateMcpServerLegacy("w1", "payments", AllowedUrl, NoAuth, environment, "orgA")
    \/ Pipeline("w1")

EntrySpec == Init /\ [][EntryNext]_vars

\* one worker: registrations with and without credentials, and the server
\* service creating, re-keying and deleting servers
RotatedAuth(org) == AuthConfig("api_key", <<"mcp", org, "rotated">>, "", "", "")

CredentialCalls ==
    { Call(EntrySpecification, AllowedUrl, auth, "none", "orgA") :
        auth \in {NoAuth, BearerAuth, VaultAuth("orgB")} }

CredentialNext ==
    \/ Register("w1", CredentialCalls)
    \/ Pipeline("w1")
    \/ \E auth \in {NoAuth, VaultAuth("orgA"), VaultAuth("orgB")} :
          CreateServer("w1", "search", "staging", AllowedUrl, auth, "orgA")
    \/ \E id \in ServerIds, auth \in {VaultAuth("orgA"), RotatedAuth("orgA"),
                                        VaultAuth("orgB")} :
          UpdateServer("w1", id, "none", "none", Url("", ""), auth, "orgA")
    \/ Delete("w1")

CredentialSpec == Init /\ [][CredentialNext]_vars

\* two workers, each with its own session, registering at the same time
\* one worker: servers are registered, created, read, listed, updated and
\* deleted, and their names are used again
TombstoneCalls ==
    { Call(Specification("search", SpecShape("1.0.0", <<>>, <<>>, 0)),
           AllowedUrl, NoAuth, "staging", "orgA") }

TombstoneNext ==
    \/ Register("w1", TombstoneCalls)
    \/ Pipeline("w1")
    \/ \E name \in Names : CreateServer("w1", name, "staging", AllowedUrl, NoAuth, "orgA")
    \/ \E id \in ServerIds : GetServer("w1", id, "orgA")
    \/ \E status \in {"none", "deleted"} : ListServers("w1", "orgA", "none", status)
    \/ \E id \in ServerIds, name \in {"none", "payments"} :
          UpdateServer("w1", id, name, "none", Url("", ""), NoAuth, "orgA")
    \/ \E id \in ServerIds : DeleteServer("w1", id, "orgA")

TombstoneSpec == Init /\ [][TombstoneNext]_vars

\* one worker: registrations whose specification and auth_config carry
\* secrets, in nested dicts and in dicts that are elements of a list
WithMetadata(shape, caps, properties) ==
    [shape EXCEPT !.capabilities = caps, !.tool_properties = properties]

MetadataShapes ==
    LET shape == SpecShape("1.0.0", <<"search">>, <<>>, 0)
    IN { shape,
         WithMetadata(shape, [api_key |-> Str("sk-1"),
                              limits |-> Map([auth_token |-> Str("t-1"),
                                              rate |-> Str("10")])], <<>>),
         WithMetadata(shape, [providers |-> List(<<Map([token |-> Str("t-1")])>>)],
                      <<>>),
         WithMetadata(shape, <<>>, [api_key |-> Map([default |-> Str("sk-1")])]) }

ApiKeyAuth == AuthConfig("api_key", <<>>, "", "key-1", "X-Custom")

MetadataCalls ==
    { Call(Specification("payments", s), AllowedUrl, auth, "none", "orgA") :
        s \in MetadataShapes, auth \in {NoAuth, BearerAuth, ApiKeyAuth} }

MetadataNext == Register("w1", MetadataCalls) \/ Pipeline("w1")

MetadataSpec == Init /\ [][MetadataNext]_vars

\* one worker: registrations with every kind of auth_config, and discovery
\* with the auth_config rebuilt from the credential row
HeaderAuthConfigs ==
    { NoAuth, BearerAuth, VaultAuth("orgA"), ApiKeyAuth,
      AuthConfig("api_key", <<>>, "", "key-1", ""),
      AuthConfig("api_key", <<>>, "tok-1", "", ""),
      AuthConfig("oauth2", <<>>, "tok-1", "key-1", "X-Custom"),
      AuthConfig("mtls", <<>>, "tok-1", "", ""),
      AuthConfig("basic_auth", <<>>, "", "key-1", "") }

HeaderCalls ==
    { Call(Specification("payments", SpecShape("1.0.0", <<>>, <<>>, 0)),
           AllowedUrl, auth, "none", "orgA") : auth \in HeaderAuthConfigs }

HeaderNext ==
    \/ Register("w1", HeaderCalls)
    \/ Pipeline("w1")
    \/ Discover("w1")

HeaderSpec == Init /\ [][HeaderNext]_vars

\* one worker whose attempts are carried on: every step of the pipeline is
\* sequential code or a request with a 30 s timeout, so an enabled step is
\* eventually taken
LiveCalls ==
    { Call(Specification("payments", s), AllowedUrl, NoAuth, "none", "orgA") :
        s \in { SpecShape("1.0.0", <<"search">>, <<>>, 0),
                SpecShape("", <<"search">>, <<>>, 0) } }

LiveNext == Register("w1", LiveCalls) \/ Pipeline("w1")

LiveSpec == Init /\ [][LiveNext]_vars /\ WF_vars(Pipeline("w1"))

\* two workers of one organization: w1 registers servers and discovers
\* their capabilities while w2 deletes servers; the requests of the two
\* overlap at the awaited handshake of w1
RaceNext ==
    \/ Register("w1", CrudCalls)
    \/ Pipeline("w1")
    \/ Discover("w1")
    \/ Delete("w2")
    \/ Finish("w2")

RaceSpec == Init /\ [][RaceNext]_vars

\* one worker serving the requests of two organizations, one after the
\* other: both register servers of the same name, and each asks for, lists,
\* renames, deletes and discovers servers by id
IsolationCalls ==
    { Call(Specification("payments", SpecShape("1.0.0", <<>>, <<>>, 0)),
           AllowedUrl, NoAuth, "staging", org) : org \in Orgs }

IsolationNext ==
    \/ Register("w1", IsolationCalls)
    \/ Pipeline("w1")
    \/ \E org \in Orgs, id \in ServerIds : GetServer("w1", id, org)
    \/ \E org \in Orgs : ListServers("w1", org, "none", "none")
    \/ \E org \in Orgs, id \in ServerIds :
          UpdateServer("w1", id, "search", "none", Url("", ""), NoAuth, org)
    \/ \E org \in Orgs, id \in ServerIds : DeleteServer("w1", id, org)
    \/ \E org \in Orgs, id \in ServerIds : StartDiscover("w1", id, org)

\* the default deployment: ENVIRONMENT "development", DEBUG False
IsolationInit == Init /\ settings.ENVIRONMENT = "development" /\ ~settings.DEBUG

IsolationSpec == IsolationInit /\ [][IsolationNext]_vars

ConcurrentCalls ==
    { Call(Specification("payments", SpecShape("1.0.0", <<"search">>, <<>>, 0)),
           AllowedUrl, NoAuth, env, "orgA") : env \in EnvironmentArgs }

ConcNext == \E p \in Procs : Register(p, ConcurrentCalls) \/ Pipeline(p)

ConcSpec == Init /\ [][ConcNext]_vars

----------------------------------------------------------------------------
(* Properties of one registration attempt *)

Registering(p) == att[p].op = "register_from_specification"

\* the rank of a position in the pipeline of section 4.5
Rank(position) ==
    CASE position = "validate" -> 1
      [] position = "security" -> 2
      [] position \in {"probe", "probe_fallback"} -> 3
      [] position \in {"handshake", "handshake_fallback"} -> 4
      [] position = "create" -> 5
      [] position = "store" -> 6
      [] position = "commit" -> 7
      [] position = "committed" -> 8
      [] OTHER -> 0

Sent(p, method, paths, outcomes) ==
    \E i \in 1..Len(att[p].reqs) :
        /\ att[p].reqs[i].method = method
        /\ att[p].reqs[i].path \in paths
        /\ att[p].reqs[i].outcome \in outcomes

\* the triple the attempt of p registers
Triple(p) == <<att[p].org, att[p].spec.name, server_environment(att[p].env)>>

\* a non-deleted row of rows holds the triple
HoldsTriple(rows, triple) ==
    \E s \in rows : ~s.deleted /\ <<s.org_id, s.name, s.environment>> = triple

DuplicateBefore(p) == HoldsTriple(att[p].before[1], Triple(p))

RowsOf(rows, sid) == SelectSeq(rows, LAMBDA r : r.mcp_server_id = sid)

RowsFrom(rows, sid, from) ==
    SelectSeq(rows, LAMBDA r : /\ r.mcp_server_id = sid
                               /\ r.capability_metadata.discovered_from = Str(from))

RowsOfKind(rows, sid, kind) ==
    SelectSeq(rows, LAMBDA r : r.mcp_server_id = sid /\ r.kind = kind)

\* C1: within one register_from_specification attempt the steps run in the
\* order validation, egress security validation, connectivity probe,
\* handshake, server and credential rows, capability rows, commit; a step
\* starts only after the previous one has finished successfully, and
\* nothing is written before the handshake step has returned.
C1_StepsInOrderEachAfterSuccess ==
    \A p \in Procs :
        Registering(p) /\ pc[p] # "aborted" =>
            /\ Rank(pc[p]) > 1 => validate_specification(att[p].spec) = ""
            /\ Rank(pc[p]) > 2 => att[p].sec = "allowed"
            /\ Rank(pc[p]) <= 2 => att[p].reqs = <<>>
            /\ Rank(pc[p]) > 3 => Sent(p, "GET", {"/health", "/"}, {"ok"})
            /\ Rank(pc[p]) <= 3 => ~Sent(p, "POST", {"/mcp/handshake", "/handshake"},
                                         {"ok", "http_error", "malformed"})
            /\ Rank(pc[p]) > 4 => att[p].hs # NoHandshake
            /\ Rank(pc[p]) <= 5 => session[p] = EmptySession /\ att[p].sid = 0
            /\ Rank(pc[p]) > 5 => \E s \in session[p].servers \cup servers : s.id = att[p].sid
            /\ Rank(pc[p]) <= 6 => session[p].capabilities = <<>>
            /\ Rank(pc[p]) <= 7 => store = att[p].before

\* C2: a register_from_specification call whose endpoint_url the egress
\* validator denies ends with a security-denial error, and no server,
\* credential or capability row is written.
C2_DeniedUrlEndsInSecurityDenial ==
    \A p \in Procs :
        Registering(p) /\ att[p].sec = "denied" =>
            /\ pc[p] = "aborted"
            /\ att[p].err.exc = "SSRFProtectionError"
            /\ session[p] = EmptySession
            /\ store = att[p].before

\* C3: no outbound request (probe, handshake) goes to a URL unless the
\* egress validator has returned Allowed for that URL earlier in the same
\* attempt.
C3_NoRequestWithoutAllowedVerdict ==
    \A p \in Procs :
        \A i \in 1..Len(att[p].reqs) :
            /\ att[p].reqs[i].url = att[p].url
            /\ att[p].sec = "allowed"

\* two non-deleted rows of rows hold the same (organization, name,
\* environment)
SharedTriple(rows) ==
    \E s \in rows, t \in rows :
        /\ s.id # t.id
        /\ ~s.deleted /\ ~t.deleted
        /\ <<s.org_id, s.name, s.environment>> = <<t.org_id, t.name, t.environment>>

\* C4: in every state that register_from_specification, create_server,
\* update_server and delete_server, served one after the other, can reach,
\* no two server rows with deleted_at unset share the triple
\* (organization, name, environment).
C4_TripleUniqueAmongLiveRows == ~SharedTriple(servers)

\* p is at the commit of a triple that another attempt has committed since
\* p passed the duplicate pre-check
LosingWriter(p) ==
    /\ Registering(p)
    /\ pc[p] = "commit"
    /\ HoldsTriple(servers, Triple(p))

\* C5: when two registration attempts for one triple both pass the
\* duplicate pre-check before either commits, the store rejects the losing
\* writer: its commit adds no second row of the triple, and the attempt ends
\* with the conflict error the pre-check would have produced.
C5_StoreRejectsLosingWriter ==
    [][\A p \in Procs :
          LosingWriter(p) /\ pc'[p] # pc[p] =>
              /\ pc'[p] = "aborted"
              /\ att'[p].err = Error("HTTPException", 400, AlreadyExists)
              /\ servers' = servers]_vars

C7_FailedAttemptLeavesStoreUnchanged ==
    \A p \in Procs :
        Registering(p) =>
            /\ pc[p] # "committed" => store = att[p].before
            /\ pc[p] = "aborted" => session[p] = EmptySession /\ att[p].err # NoError
            /\ pc[p] = "committed" =>
                  /\ \E s \in servers : /\ s.id = att[p].sid
                                        /\ servers = att[p].before[1] \cup {s}
                                        /\ s \notin att[p].before[1]
                  /\ credentials = att[p].before[2]
                        \o (IF att[p].auth.present
                            THEN <<CredentialRow(att[p].sid, att[p].auth.type,
                                    att[p].auth.vault_path,
                                    sanitize_metadata(auth_config_dict(att[p].auth)))>>
                            ELSE <<>>)
                  /\ capabilities = att[p].before[3]
                        \o capability_rows(att[p].sid, att[p].spec, att[p].hs)

\* an attempt has failed after its server row had been flushed, with rows
\* of an earlier registration in the store
C7_Witness ==
    \E p \in Procs :
        /\ Registering(p) /\ pc[p] = "aborted" /\ att[p].sid # 0
        /\ att[p].err = Error("SQLAlchemyError", 0, "commit failed")
        /\ servers # {}

\* C8: when GET <endpoint>/health and GET <endpoint>/ both fail, the
\* attempt is aborted with the connectivity error, no handshake request is
\* sent, and the attempt creates no server row.
C8_UnreachableEndpointNotRegistered ==
    \A p \in Procs :
        Registering(p) /\ Sent(p, "GET", {"/health"}, {"http_error"})
                       /\ Sent(p, "GET", {"/"}, {"http_error"}) =>
            /\ pc[p] = "aborted"
            /\ att[p].err = Error("ValueError", 0, "Server connectivity test failed")
            /\ ~Sent(p, "POST", {"/mcp/handshake", "/handshake"},
                     {"ok", "http_error", "malformed"})
            /\ att[p].hs = NoHandshake
            /\ att[p].sid = 0
            /\ session[p] = EmptySession
            /\ store = att[p].before

C8_Witness ==
    \E p \in Procs :
        /\ Registering(p) /\ pc[p] = "aborted"
        /\ Sent(p, "GET", {"/health"}, {"http_error"})
        /\ Sent(p, "GET", {"/"}, {"http_error"})

BothHandshakesRefused(p) ==
    /\ Sent(p, "GET", {"/health", "/"}, {"ok"})
    /\ Sent(p, "POST", {"/mcp/handshake"}, {"http_error"})
    /\ Sent(p, "POST", {"/handshake"}, {"http_error"})

\* C9: when connectivity succeeds and both handshake endpoints answer with
\* non-success, the attempt goes on (only the duplicate check or the store
\* can still stop it), and what it commits is the server row, no row of
\* provenance "handshake", and one row of provenance "specification" for
\* each declared tool and each declared resource.
C9_HandshakeDegradation ==
    \A p \in Procs :
        Registering(p) /\ BothHandshakesRefused(p) =>
            /\ att[p].hs = MinimalHandshake
            /\ pc[p] = "aborted" => att[p].err.exc \in {"HTTPException", "SQLAlchemyError"}
            /\ pc[p] = "committed" =>
                  /\ \E s \in servers : s.id = att[p].sid /\ ~s.deleted
                  /\ RowsFrom(capabilities, att[p].sid, "handshake") = <<>>
                  /\ Len(RowsFrom(capabilities, att[p].sid, "specification"))
                        = Len(att[p].spec.tools) + Len(att[p].spec.resources)
                  /\ Len(RowsOfKind(capabilities, att[p].sid, "tool")) = Len(att[p].spec.tools)
                  /\ Len(RowsOfKind(capabilities, att[p].sid, "resource"))
                        = Len(att[p].spec.resources)

\* a registration with a declared tool and resource has committed after
\* both handshake endpoints refused
C9_Witness ==
    \E p \in Procs :
        /\ Registering(p) /\ BothHandshakesRefused(p) /\ pc[p] = "committed"
        /\ Len(att[p].spec.tools) > 0 /\ Len(att[p].spec.resources) > 0

\* C10: the handshake step never raises: whatever the primary and the
\* fallback POST come to, it returns a handshake result, and the minimal
\* one ("1.0", "unknown", no capabilities) when neither POST completes.
C10_HandshakeAlwaysReturnsResult ==
    \A p \in Procs :
        Registering(p) /\ pc[p] # "handshake_fallback"
                       /\ Sent(p, "POST", {"/mcp/handshake"}, {"ok", "http_error", "malformed"}) =>
            /\ att[p].hs # NoHandshake
            /\ ~Sent(p, "POST", {"/mcp/handshake", "/handshake"}, {"ok"})
                  => att[p].hs = MinimalHandshake

\* the rows the operation of p has added to the capability table
NewCapabilities(p) ==
    SubSeq(capabilities, Len(att[p].before[3]) + 1, Len(capabilities))

Provenance(rows, from) ==
    SelectSeq(rows, LAMBDA r : r.capability_metadata.discovered_from = Str(from))

Named(rows, name) == SelectSeq(rows, LAMBDA r : r.name = name)

\* C11: for T declared tools, R declared resources and H entries of the
\* handshake capability map, the store receives exactly T+R rows of
\* provenance "specification" and exactly H rows of provenance "handshake",
\* all of them rows of the server at hand; a handshake capability named like
\* a declared tool gets a row of its own next to the tool's row; without a
\* specification (discover_capabilities) exactly H rows are written.
C11_CapabilityRowCounts ==
    \A p \in Procs :
        att[p].op \in {"register_from_specification", "discover_capabilities"}
        /\ pc[p] = "committed" =>
            LET T == IF att[p].op = "discover_capabilities" THEN 0 ELSE Len(att[p].spec.tools)
                R == IF att[p].op = "discover_capabilities" THEN 0
                     ELSE Len(att[p].spec.resources)
                H == Len(att[p].hs.capabilities)
                new == NewCapabilities(p)
            IN /\ SubSeq(capabilities, 1, Len(att[p].before[3])) = att[p].before[3]
               /\ Len(new) = T + R + H
               /\ Len(Provenance(new, "specification")) = T + R
               /\ Len(Provenance(new, "handshake")) = H
               /\ \A i \in 1..Len(new) : new[i].mcp_server_id = att[p].sid
               /\ \A n \in Range(att[p].hs.capabilities) :
                     /\ Len(Provenance(Named(new, n), "handshake")) = 1
                     /\ n \in Range(att[p].spec.tools) =>
                            Len(Provenance(Named(new, n), "specification")) = 1

\* a registration has committed two tools, one resource and a handshake
\* capability named like one of the tools
C11_Witness ==
    \E p \in Procs :
        /\ Registering(p) /\ pc[p] = "committed"
        /\ Len(att[p].spec.tools) = 2 /\ Len(att[p].spec.resources) = 1
        /\ \E n \in Range(att[p].hs.capabilities) : n \in Range(att[p].spec.tools)
        /\ Len(Named(NewCapabilities(p), "search")) = 2

\* two positions of the sequence hold the same element
HasDuplicate(seq) ==
    \E i \in 1..Len(seq), j \in 1..Len(seq) : i # j /\ seq[i] = seq[j]

----------------------------------------------------------------------------
(* Properties of the egress validator *)

Validated(p) == att[p].op \in {"validate_url_security", "validate_mcp_server_url"}

\* the environment the URL is validated for: the server's where the call
\* names one, the deployment's otherwise
ValidatedFor(p) ==
    IF att[p].op = "validate_mcp_server_url" THEN att[p].env ELSE settings.ENVIRONMENT

\* the configured allow-list and, for development, localhost, loopback and
\* the any-address
EffectiveAllowList(p) ==
    settings.ALLOWED_EGRESS_HOSTS
    \cup (IF att[p].op = "validate_mcp_server_url" /\ att[p].env = "development"
          THEN {"localhost", "127.0.0.1", "0.0.0.0"} ELSE {})

\* a private, loopback, link-local, multicast or reserved IP literal
BlockedIpLiteral(h) ==
    /\ h \in IpLiterals
    /\ is_private(h) \/ is_loopback(h) \/ is_link_local(h) \/ is_multicast(h)
       \/ is_reserved(h)

DevelopmentLoopback(p) ==
    /\ att[p].op = "validate_mcp_server_url"
    /\ att[p].env = "development"
    /\ att[p].url.hostname \in {"127.0.0.1", "0.0.0.0"}

SchemeAdmitted(p) ==
    /\ att[p].url.scheme \in {"http", "https", "ws", "wss"}
    /\ settings.ENVIRONMENT = "production" => att[p].url.scheme \in {"https", "wss"}

\* C13 as stated: a URL whose hostname is a private, loopback, link-local,
\* multicast or reserved IP literal is denied in every environment and with
\* every configured allow-list, except in development for 127.0.0.1 and
\* 0.0.0.0.
C13_BlockedIpLiteralDenied ==
    \A p \in Procs :
        Validated(p) /\ BlockedIpLiteral(att[p].url.hostname) /\ ~DevelopmentLoopback(p) =>
            att[p].sec = "denied"

\* C13, amended: such a URL is denied in every environment unless its
\* hostname is literally in the effective allow-list (the configured list
\* and, for a development server, localhost, 127.0.0.1 and 0.0.0.0); a
\* hostname in that list is allowed once the scheme rules have passed.
C13_BlockedIpLiteralDeniedUnlessListed ==
    \A p \in Procs :
        Validated(p) /\ BlockedIpLiteral(att[p].url.hostname) =>
            IF att[p].url.hostname \in EffectiveAllowList(p)
            THEN att[p].sec = "allowed" <=> SchemeAdmitted(p)
            ELSE att[p].sec = "denied"

\* a private address outside the allow-list has been denied for a
\* development server after the scheme rules had passed
C13_Witness ==
    \E p \in Procs :
        /\ att[p].op = "validate_mcp_server_url" /\ att[p].env = "development"
        /\ att[p].url = Url("https", "10.0.0.1")
        /\ "10.0.0.1" \notin settings.ALLOWED_EGRESS_HOSTS
        /\ att[p].sec = "denied"
        /\ att[p].err.msg = "Private IP address not allowed"

\* C14: a URL with scheme http or ws validated for a server whose
\* environment is production is denied, whatever the hostname and the
\* allow-list.
C14_PlainSchemeDeniedForProduction ==
    \A p \in Procs :
        att[p].op = "validate_mcp_server_url" /\ att[p].env = "production"
        /\ att[p].url.scheme \in {"http", "ws"} =>
            att[p].sec = "denied"

\* C15: the validator is default-deny: it allows only a URL whose scheme is
\* one of http, https, ws, wss and encrypted when the environment is
\* production, whose hostname is present and either literally in the
\* effective allow-list or a public IP literal outside production; a DNS
\* name that is not in the allow-list is denied.
C15_DefaultDeny ==
    \A p \in Procs :
        Validated(p) =>
            /\ att[p].sec = "allowed" =>
                  /\ att[p].url.scheme \in {"http", "https", "ws", "wss"}
                  /\ ValidatedFor(p) = "production" => att[p].url.scheme \in {"https", "wss"}
                  /\ att[p].url.hostname # ""
                  /\ \/ att[p].url.hostname \in EffectiveAllowList(p)
                     \/ /\ att[p].url.hostname \in IpLiterals
                        /\ ~BlockedIpLiteral(att[p].url.hostname)
                        /\ ValidatedFor(p) # "production"
            /\ att[p].url.hostname \notin IpLiterals
                  /\ att[p].url.hostname \notin EffectiveAllowList(p) => att[p].sec = "denied"

----------------------------------------------------------------------------
(* Properties of the stored rows *)

\* C16: every persisted server row has one of the environments
\* development, staging, production, whichever entry point created it and
\* whatever the caller passed.
C16_EnvironmentIsOneOfThree ==
    \A s \in servers : s.environment \in Environments

\* the caller of the entry point named no environment: register_from_url
\* and register_from_json_file take none, the others were given None
EnvironmentUnspecified(p) ==
    \/ att[p].entry \in {"register_from_url", "register_from_json_file"}
    \/ att[p].env = "none"

\* C17: when the caller of a registration entry point names no environment,
\* the created row's environment is development in a debug deployment and
\* production otherwise.
C17_DefaultEnvironment ==
    \A p \in Procs :
        Registering(p) /\ pc[p] = "committed" /\ EnvironmentUnspecified(p) =>
            \A s \in servers :
                s.id = att[p].sid =>
                    s.environment = IF settings.DEBUG THEN "development" ELSE "production"

\* the path lies under mcp/<org>/
ScopedUnder(vault_path, org) ==
    /\ Len(vault_path) >= 3
    /\ SubSeq(vault_path, 1, 2) = <<"mcp", org>>

\* C18: every persisted credential row's vault path lies under the
\* namespace mcp/<org_id>/ of the organization that owns its server,
\* whether register_from_specification, create_server or update_server
\* created the row.
C18_VaultPathScopedToOwner ==
    \A i \in 1..Len(credentials) :
        \A s \in servers :
            s.id = credentials[i].mcp_server_id =>
                ScopedUnder(credentials[i].vault_path, s.org_id)

\* C19: every server has at most one credential row: registration and
\* create_server add none or one, and update_server with an auth_config
\* removes the server's credential before it adds the new one.
C19_AtMostOneCredential ==
    /\ \A s \in servers : Len(RowsOf(credentials, s.id)) <= 1
    /\ \A p \in Procs :
          att[p].op = "update_server" /\ pc[p] = "returned" =>
              /\ Len(RowsOf(credentials, att[p].sid)) = 1
              /\ \A i \in 1..Len(credentials) :
                    credentials[i].mcp_server_id # att[p].sid =>
                        \E j \in 1..Len(att[p].before[2]) :
                            att[p].before[2][j] = credentials[i]

\* update_server has put a new credential in the place of the one the
\* server had
C19_Witness ==
    \E p \in Procs :
        /\ att[p].op = "update_server" /\ pc[p] = "returned"
        /\ Len(RowsOf(att[p].before[2], att[p].sid)) = 1
        /\ RowsOf(credentials, att[p].sid) # RowsOf(att[p].before[2], att[p].sid)
        /\ Len(RowsOf(credentials, att[p].sid)) = 1

\* C20: once delete_server has succeeded for a server, the store holds no
\* credential row of that server.
C20_DeleteLeavesNoCredential ==
    \A p \in Procs :
        att[p].op = "delete_server" /\ pc[p] = "returned" =>
            RowsOf(credentials, att[p].sid) = <<>>

-----------------------------------------------------------------------------
(* Properties of the persisted metadata *)

RECURSIVE Exposed(_)
\* the value holds, at some depth, a sensitive key whose value is not the
\* redaction marker
Exposed(v) ==
    IF IsMap(v)
    THEN \E k \in DOMAIN v.map :
            \/ SensitiveKey(k) /\ v.map[k] # Redacted
            \/ Exposed(v.map[k])
    ELSE IF IsList(v)
    THEN \E i \in DOMAIN v.list : Exposed(v.list[i])
    ELSE FALSE

\* C21: no metadata map of a committed server, credential or capability row
\* holds, at any depth, a sensitive key with a value other than the
\* redaction marker.
C21_NoSensitiveValueInMetadata ==
    /\ \A s \in servers : ~Exposed(Map(s.server_metadata))
    /\ \A i \in DOMAIN credentials : ~Exposed(Map(credentials[i].credential_metadata))
    /\ \A i \in DOMAIN capabilities : ~Exposed(Map(capabilities[i].capability_metadata))

-----------------------------------------------------------------------------
(* Properties of deletion *)

Finished(p) == pc[p] \in {"committed", "aborted", "returned", "raised"}

Ids(rows) == {s.id : s \in rows}

Tombstoned(rows, id) == \E s \in rows : s.id = id /\ s.deleted

NotFound == Error("HTTPException", 404, "MCP server not found")

-----------------------------------------------------------------------------
(* Properties of capability discovery *)

Discovering(p) == att[p].op = "discover_capabilities"

\* C23: a discover_capabilities pass that commits leaves every capability
\* row that was there in its place and unchanged and appends, for the server
\* at hand, one row of provenance "handshake" per entry of the handshake
\* capability map, in the order of the map; a pass that fails, and a pass
\* that has not committed yet, leaves the capability rows as they were.
C23_DiscoveryOnlyAppends ==
    \A p \in Procs :
        Discovering(p) =>
            LET old == att[p].before[3]
                H == Len(att[p].hs.capabilities)
            IN IF pc[p] = "committed"
               THEN /\ Len(capabilities) = Len(old) + H
                    /\ SubSeq(capabilities, 1, Len(old)) = old
                    /\ \A i \in 1..H :
                          LET row == capabilities[Len(old) + i]
                          IN /\ row.mcp_server_id = att[p].sid
                             /\ row.name = att[p].hs.capabilities[i]
                             /\ row.capability_metadata.discovered_from = Str("handshake")
               ELSE capabilities = old

\* a second pass on a server has committed: the rows of the first pass are
\* still there, next to new rows of the same names
C23_Witness ==
    \E p \in Procs :
        /\ Discovering(p) /\ pc[p] = "committed"
        /\ Len(att[p].hs.capabilities) = 2
        /\ Len(RowsFrom(att[p].before[3], att[p].sid, "handshake")) = 2
        /\ Len(RowsFrom(capabilities, att[p].sid, "handshake")) = 4

-----------------------------------------------------------------------------
(* Properties of the endpoints' answers *)

EntryPoints == {"register_from_specification", "register_from_url",
                "register_from_json_file", "create_mcp_server_legacy"}

\* the errors of steps 1 to 4 and of the store
ValidationFailures ==
    { Error("ValueError", 0, "Server name and version are required"),
      Error("ValueError", 0, "Tool names must be unique"),
      Error("ValueError", 0, "Server connectivity test failed"),
      Error("ValidationError", 0, "invalid handshake response") }

PersistenceFailures ==
    { Error("SQLAlchemyError", 0, "flush failed"),
      Error("SQLAlchemyError", 0, "commit failed") }

\* C24: at each of the four entry points, an attempt stopped by the
\* duplicate check is answered with a response whose detail is the "already
\* exists" reason and which differs from the answer to every validation
\* error and from the answer to a failure of the store.
C24_ConflictSurfacedDistinctly ==
    \A p \in Procs :
        /\ att[p].entry \in EntryPoints
        /\ pc[p] = "aborted"
        /\ att[p].err.msg = AlreadyExists
        => LET answer == http_response(att[p].entry, att[p].err)
           IN /\ answer.detail = AlreadyExists
              /\ \A e \in ValidationFailures \cup PersistenceFailures :
                    answer # http_response(att[p].entry, e)

-----------------------------------------------------------------------------
(* Properties of the outbound requests *)

\* the probe and handshake requests of p, in the order they were sent
EndpointRequests(p) == SelectSeq(att[p].reqs, LAMBDA r : r.path # "")

\* C25: every probe and handshake request carries Content-Type:
\* application/json and, next to it, Authorization: Bearer <token> when the
\* auth configuration has type bearer_token and a token, the configured
\* header name (X-API-Key when none is configured) with the key when it has
\* type api_key and a key, and no other header in every other case.
C25_HeadersFromAuthConfig ==
    \A p \in Procs :
        \A i \in DOMAIN EndpointRequests(p) :
            LET headers == EndpointRequests(p)[i].headers
                auth == att[p].auth
                name == IF auth.header_name # "" THEN auth.header_name ELSE "X-API-Key"
            IN /\ headers["Content-Type"] = "application/json"
               /\ IF auth.present /\ auth.type = "bearer_token" /\ auth.token # ""
                  THEN /\ DOMAIN headers = {"Content-Type", "Authorization"}
                       /\ headers["Authorization"] = "Bearer " \o auth.token
                  ELSE IF auth.present /\ auth.type = "api_key" /\ auth.api_key # ""
                  THEN /\ DOMAIN headers = {"Content-Type", name}
                       /\ headers[name] = auth.api_key
                  ELSE DOMAIN headers = {"Content-Type"}

\* a probe and a handshake request went out with the bearer token
C25_Witness ==
    \E p \in Procs :
        /\ att[p].auth.type = "bearer_token" /\ att[p].auth.token = "tok-1"
        /\ \E i, j \in DOMAIN att[p].reqs :
              /\ att[p].reqs[i].method = "GET" /\ att[p].reqs[j].method = "POST"
              /\ att[p].reqs[i].headers["Authorization"] = "Bearer tok-1"
              /\ att[p].reqs[j].headers["Authorization"] = "Bearer tok-1"

\* the requests of _test_server_connectivity and of _perform_handshake
Probes(p) == SelectSeq(att[p].reqs, LAMBDA r : r.method = "GET" /\ r.path # "")

Handshakes(p) == SelectSeq(att[p].reqs, LAMBDA r : r.method = "POST")

\* C26: the first probe request is GET <endpoint>/health; GET <endpoint>/ is
\* sent second and only after the first has failed; there is no third; a
\* request that succeeds ends the probe with success, and the attempt goes
\* past the probe only after one that succeeded.
C26_ProbeOrder ==
    \A p \in Procs :
        LET probes == Probes(p)
        IN /\ Len(probes) <= 2
           /\ Len(probes) >= 1 => probes[1].path = "/health"
           /\ Len(probes) = 2 => probes[2].path = "/" /\ probes[1].outcome # "ok"
           /\ \A i \in DOMAIN probes : probes[i].url = att[p].url
           /\ Len(probes) >= 1 /\ probes[Len(probes)].outcome = "ok" =>
                 /\ pc[p] \notin {"probe", "probe_fallback"}
                 /\ att[p].err.msg # "Server connectivity test failed"
           /\ Registering(p) /\ Rank(pc[p]) >= 4 =>
                 Len(probes) >= 1 /\ probes[Len(probes)].outcome = "ok"

\* GET <endpoint>/health failed, GET <endpoint>/ succeeded, and the attempt
\* went on
C26_Witness ==
    \E p \in Procs :
        /\ Registering(p) /\ Rank(pc[p]) >= 4
        /\ Len(Probes(p)) = 2
        /\ Probes(p)[1].outcome = "http_error" /\ Probes(p)[2].outcome = "ok"

\* C27: the first handshake request is POST <endpoint>/mcp/handshake with
\* the body {protocol_version "1.0", client_info}; POST <endpoint>/handshake
\* with the same body is sent second and only after the first has failed;
\* there is no third; when the first succeeds its result is returned and the
\* fallback is not contacted.
C27_HandshakeOrder ==
    \A p \in Procs :
        LET posts == Handshakes(p)
        IN /\ Len(posts) <= 2
           /\ Len(posts) >= 1 =>
                 /\ posts[1].path = "/mcp/handshake"
                 /\ posts[1].body.map.protocol_version = Str("1.0")
                 /\ "client_info" \in DOMAIN posts[1].body.map
           /\ Len(posts) = 2 =>
                 /\ posts[2].path = "/handshake"
                 /\ posts[2].body = posts[1].body
                 /\ posts[1].outcome = "http_error"
           /\ \A i \in DOMAIN posts : posts[i].url = att[p].url
           /\ Len(posts) >= 1 /\ posts[Len(posts)].outcome = "ok" =>
                 /\ pc[p] \notin {"handshake", "handshake_fallback"}
                 /\ att[p].hs.server_name = "remote"

\* the primary handshake answered and the attempt went on with its result;
\* no request to <endpoint>/handshake was made
C27_Witness ==
    \E p \in Procs :
        /\ Registering(p) /\ pc[p] = "committed"
        /\ Len(Handshakes(p)) = 1
        /\ Handshakes(p)[1].outcome = "ok"
        /\ att[p].hs.capabilities # <<>>

\* C28: an attempt that has started eventually is committed or aborted; it
\* never has more than two probe requests or more than two handshake
\* requests; an aborted attempt takes no further step of the pipeline: the
\* only step after "aborted" is the worker turning to its next request, and
\* the store is as the abort left it.
C28_AttemptTerminates ==
    /\ \A p \in Procs : pc[p] = "validate" ~> pc[p] \in {"committed", "aborted"}
    /\ [](\A p \in Procs : Len(Probes(p)) <= 2 /\ Len(Handshakes(p)) <= 2)
    /\ [][\A p \in Procs : pc[p] = "aborted" =>
                /\ pc'[p] \in {"aborted", "idle"}
                /\ store' = store]_vars

\* an attempt has ended after two probe and two handshake requests
C28_Witness ==
    \E p \in Procs :
        /\ Registering(p) /\ pc[p] \in {"committed", "aborted"}
        /\ Len(Probes(p)) = 2 /\ Len(Handshakes(p)) = 2

\* C29: the commit of a discover_capabilities pass adds capability rows
\* only for a server that is not tombstoned at that moment.
C29_NoCapabilitiesForTombstonedServer ==
    [][\A p \in Procs :
          /\ Discovering(p)
          /\ pc[p] = "commit" /\ pc'[p] = "committed"
          /\ capabilities' # capabilities
          => ~Tombstoned(servers, att[p].sid)]_vars

-----------------------------------------------------------------------------
(* Properties of organization isolation *)

ById == {"get_server", "update_server", "delete_server", "discover_capabilities"}

\* the rows of rows that belong to servers of another organization than org
ForeignServers(rows, org) == {s \in rows : s.org_id # org}

ForeignRows(rows, srv, org) ==
    SelectSeq(rows, LAMBDA r : r.mcp_server_id \in Ids(ForeignServers(srv, org)))

\* C30: an operation of a caller of organization A returns only rows of A
\* and leaves the server, credential and capability rows of every other
\* organization as they were; get_server, update_server, delete_server and
\* discover_capabilities on the id of another organization's server answer
\* "not found"; a registration is answered with the conflict only when a
\* live row of A holds the triple, and an update only when another live row
\* of A exists.
C30_OrganizationIsolation ==
    \A p \in Procs :
        Finished(p) /\ att[p].op # "" =>
            LET org == att[p].org
                old == att[p].before
            IN /\ \A i \in DOMAIN att[p].result : att[p].result[i].org_id = org
               /\ ForeignServers(servers, org) = ForeignServers(old[1], org)
               /\ ForeignRows(credentials, servers, org) = ForeignRows(old[2], old[1], org)
               /\ ForeignRows(capabilities, servers, org) = ForeignRows(old[3], old[1], org)
               /\ att[p].op \in ById /\ att[p].sid \in Ids(ForeignServers(old[1], org)) =>
                     /\ pc[p] = "raised"
                     /\ att[p].err.msg \in {"MCP server not found", "Server not found"}
                     /\ store = old
               /\ Registering(p) /\ att[p].err.msg = AlreadyExists => DuplicateBefore(p)
               /\ att[p].op = "update_server" /\ att[p].err.msg = AlreadyExists =>
                     \E s \in old[1] : s.org_id = org /\ ~s.deleted /\ s.id # att[p].sid

\* two organizations hold live servers of the same name and environment,
\* and a caller of one of them was told that the other's server is not found
C30_Witness ==
    \E p \in Procs :
        /\ att[p].op \in ById /\ pc[p] = "raised"
        /\ \E s, t \in servers :
              /\ s.id = att[p].sid /\ s.org_id # att[p].org /\ ~s.deleted
              /\ t.org_id = att[p].org /\ ~t.deleted
              /\ t.name = s.name /\ t.environment = s.environment

====
